---- MODULE Spec2Model ----
(***************************************************************************)
(* Model of the runelite plugin-hub triage bot (src/index.ts).             *)
(*                                                                         *)
(* Two webhook handlers act on one issue of the GitHub repository:         *)
(*   - the PR-content handler (opened / synchronize / reopened),           *)
(*   - the review handler (pull_request_review.submitted).                 *)
(* The issue's labels and comments live on the GitHub server; a handler    *)
(* invocation holds local variables (its label snapshot, the file lists,   *)
(* the review map) and advances by one awaited API call per step.          *)
(*                                                                         *)
(* Strings are sequences of tokens: "plugins/foo" is <<"plugins/","foo">>, *)
(* concatenation is \o, the empty string is <<>>.  Where the code matches  *)
(* a regular expression, on the lines of a property file and on a clone    *)
(* URL, the text is spelled out: each token is one character.              *)
(*                                                                         *)
(* No handler catches an exception: every awaited API call either answers  *)
(* or rejects, and a rejection ends the invocation where it is.            *)
(***************************************************************************)
EXTENDS Integers, Sequences, FiniteSets, TLC

VARIABLES
    labels,          \* server: the set of label names on the issue
    comments,        \* server: the issue's comments, [id, body], in order
    pc,              \* per invocation: the next awaited call
    handling,        \* per invocation slot: the event of its latest delivery
    snapshot,        \* per invocation: `labels`, the Set built at lines 26 / 119
    files,           \* classifier on its own: the file list it was given
    pluginFiles,     \* per invocation: line 38
    dependencyFiles, \* per invocation: line 39
    otherFiles,      \* per invocation: line 40
    results,         \* per invocation: the promises of Promise.all, line 58
    settled,         \* per invocation: the order in which they were fulfilled
    difftext,        \* per invocation: lines 58-101
    sticky,          \* per invocation: id of the comment found at line 105, 0 if none
    reviews,         \* per invocation: line 123
    members,         \* per invocation: line 127
    reviewStates,    \* per invocation: line 129
    calls,           \* per invocation: its setHasLabel calls and their outcome
    writes,          \* per invocation: the API writes it has issued, in order
    failed,          \* per invocation: an exception escaped the handler
    error,           \* per invocation: what rejected, "none" if nothing did
    before,          \* per invocation: server labels and comments at its start
    events           \* number of webhook deliveries so far

vars == <<labels, comments, pc, handling, snapshot, files, pluginFiles,
          dependencyFiles, otherFiles, results, settled, difftext, sticky,
          reviews, members, reviewStates, calls, writes, failed, error, before,
          events>>

-----------------------------------------------------------------------------
(* Bounds of the model *)

MaxFiles == 2
MaxReviews == 2
MaxEvents == 2
MaxCalls == 2
MaxPaths == 3
MaxOverlapFiles == 1
MaxOverlapReviews == 1

-----------------------------------------------------------------------------
(* Constants of the program *)

PLUGIN_CHANGE == "plugin change"
PACKAGE_CHANGE == "package change"
DEPENDENCY_CHANGE == "dependency change"
READY_TO_MERGE == "ready to merge"

Labels == {PLUGIN_CHANGE, PACKAGE_CHANGE, DEPENDENCY_CHANGE, READY_TO_MERGE}

marker == <<"<!-- rlphc -->">>

BuildGradle == <<"package/verification-template/build.gradle">>
VerificationMetadata ==
    <<"package/verification-template/gradle/verification-metadata.xml">>

\* The backquote character of the narrative templates, as a token
BT == "BACKQUOTE"

-----------------------------------------------------------------------------
(* String helpers *)

\* String.prototype.startsWith
StartsWith(s, prefix) ==
    /\ Len(s) >= Len(prefix)
    /\ SubSeq(s, 1, Len(prefix)) = prefix

\* Index of the first occurrence of token t in s, 0 if none
IndexOf(s, t) ==
    IF \E i \in 1..Len(s) : s[i] = t
    THEN CHOOSE i \in 1..Len(s) : s[i] = t /\ \A j \in 1..(i - 1) : s[j] # t
    ELSE 0

\* s.replace(t, "") with a string pattern: removes the first occurrence only
RemoveFirst(s, t) ==
    LET i == IndexOf(s, t)
    IN IF i = 0 THEN s ELSE SubSeq(s, 1, i - 1) \o SubSeq(s, i + 1, Len(s))

\* Array.prototype.join
RECURSIVE Join(_, _)
Join(parts, sep) ==
    IF Len(parts) = 0 THEN <<>>
    ELSE IF Len(parts) = 1 THEN parts[1]
    ELSE parts[1] \o sep \o Join(Tail(parts), sep)

-----------------------------------------------------------------------------
(* Plugin property files: readKV, lines 63-69.  The text of a property    *)
(* file, its keys and values and the clone URL are sequences of           *)
(* characters, each a one-character string.                               *)

\* U+2028 and U+2029, as tokens
LS == "U+2028"
PS == "U+2029"

\* The characters that "." of a regular expression does not match
LineTerminators == {"\n", "\r", LS, PS}

\* Index of the first element of s at or after position from that is in
\* set, 0 if none
FirstIn(s, from, set) ==
    IF \E j \in from..Len(s) : s[j] \in set
    THEN CHOOSE j \in from..Len(s) :
             s[j] \in set /\ \A k \in from..(j - 1) : s[k] \notin set
    ELSE 0

\* /([^=]+)=(.*)/.exec(line): the first place where one or more characters
\* other than "=" are followed by "="; the key is what precedes that "=",
\* the value what follows it up to the first line terminator.  A line with
\* no such place does not match.
RECURSIVE SkipEquals(_)
SkipEquals(line) ==
    IF line # <<>> /\ Head(line) = "=" THEN SkipEquals(Tail(line)) ELSE line

LineMatches(line) == IndexOf(SkipEquals(line), "=") # 0

LineKey(line) ==
    LET l == SkipEquals(line) IN SubSeq(l, 1, IndexOf(l, "=") - 1)

LineValue(line) ==
    LET l == SkipEquals(line)
        rest == SubSeq(l, IndexOf(l, "=") + 1, Len(l))
        t == FirstIn(rest, 1, LineTerminators)
    IN IF t = 0 THEN rest ELSE SubSeq(rest, 1, t - 1)

\* Assigning a string to acc["__proto__"] adds no property to the object
ProtoKey ==
    <<"_", "_", "p", "r", "o", "t", "o", "_", "_">>

\* The reduce of lines 66-69: later lines overwrite earlier ones
RECURSIVE ReadKVFrom(_, _)
ReadKVFrom(acc, lines) ==
    IF lines = <<>> THEN acc
    ELSE LET l == Head(lines)
             next == IF LineMatches(l) /\ LineKey(l) # ProtoKey
                     THEN [k \in DOMAIN acc \cup {LineKey(l)} |->
                              IF k = LineKey(l) THEN LineValue(l) ELSE acc[k]]
                     ELSE acc
         IN ReadKVFrom(next, Tail(lines))

\* readKV(res): res.data split at "\n" is the sequence of lines
readKV(data) == ReadKVFrom(<<>>, data)

RepositoryKey ==
    <<"r", "e", "p", "o", "s", "i", "t", "o", "r", "y">>

CommitKey ==
    <<"c", "o", "m", "m", "i", "t">>

Undefined ==
    <<"u", "n", "d", "e", "f", "i", "n", "e", "d">>

\* Property access on the parsed record; a missing key reads as undefined,
\* which the regex and the template literals turn into the text "undefined"
Prop(kv, key) == IF key \in DOMAIN kv THEN kv[key] ELSE Undefined

-----------------------------------------------------------------------------
(* extractURL, lines 72-79 *)

\* The literal head of /https:\/\/github\.com\/([^/]+)\/([^.]+).git/
Host ==
    <<"h", "t", "t", "p", "s", ":", "/", "/", "g", "i", "t", "h", "u", "b",
      ".", "c", "o", "m", "/">>

\* ([^/]+)\/ from position i: the user runs up to the first "/", UserEnd is
\* the position of that "/", 0 if there is none
UserEnd(url, i) == FirstIn(url, i + Len(Host), {"/"})

\* ([^.]+).git from position r: the lengths the repo group can have: one or
\* more characters other than ".", then any character but a line
\* terminator, then "git"
RepoLengths(url, r) ==
    {n \in 1..(Len(url) - r - 3) :
        /\ \A k \in r..(r + n - 1) : url[k] # "."
        /\ url[r + n] \notin LineTerminators
        /\ SubSeq(url, r + n + 1, r + n + 3) = <<"g", "i", "t">>}

\* The regex is not anchored: it matches at any position i of the text
URLMatchAt(url, i) ==
    /\ i + Len(Host) - 1 <= Len(url)
    /\ SubSeq(url, i, i + Len(Host) - 1) = Host
    /\ UserEnd(url, i) > i + Len(Host)
    /\ RepoLengths(url, UserEnd(url, i) + 1) # {}

URLMatches(cloneURL) == \E i \in 1..Len(cloneURL) : URLMatchAt(cloneURL, i)

\* Defined when URLMatches(cloneURL); otherwise extractURL throws (line 75).
\* exec gives the leftmost match, and the repo group is greedy.
extractURL(cloneURL) ==
    LET i == CHOOSE i \in 1..Len(cloneURL) :
                 /\ URLMatchAt(cloneURL, i)
                 /\ \A j \in 1..(i - 1) : ~URLMatchAt(cloneURL, j)
        e == UserEnd(cloneURL, i)
        lens == RepoLengths(cloneURL, e + 1)
        n == CHOOSE n \in lens : \A k \in lens : k <= n
    IN [user |-> SubSeq(cloneURL, i + Len(Host), e - 1),
        repo |-> SubSeq(cloneURL, e + 1, e + n)]

-----------------------------------------------------------------------------
(* The narrative of one plugin file: the async callback of lines 58-97 *)

Thrown == [ok |-> FALSE, text |-> <<>>]
Returned(t) == [ok |-> TRUE, text |-> t]

\* [old...new](https://github.com/u/r/compare/old...user:new), lines 85, 93
CompareLink(oldPlugin, newPlugin, oldPluginURL, user) ==
    <<"[">> \o Prop(oldPlugin, CommitKey) \o <<"...">> \o Prop(newPlugin, CommitKey)
    \o <<"](https://github.com/">> \o oldPluginURL.user \o <<"/">>
    \o oldPluginURL.repo \o <<"/compare/">> \o Prop(oldPlugin, CommitKey)
    \o <<"...">> \o user \o <<":">> \o Prop(newPlugin, CommitKey) \o <<")">>

\* Lines 83-85 and 90-93: fetch the old record from master, then the text.
\* oldRes is the response of github.request for the old file.
WithOld(oldRes, newPlugin, user, prefix) ==
    IF ~oldRes.ok THEN Thrown
    ELSE LET oldPlugin == readKV(oldRes.data)
         IN IF ~URLMatches(Prop(oldPlugin, RepositoryKey)) THEN Thrown
            ELSE Returned(prefix \o CompareLink(oldPlugin, newPlugin,
                     extractURL(Prop(oldPlugin, RepositoryKey)), user))

\* Line 59
PluginName(file) == RemoveFirst(file.filename, "plugins/")

\* Lines 60-62: a removed file's callback returns without a fetch
RemovedText(file) == <<"Removed ", BT>> \o PluginName(file) \o <<BT, " plugin">>

\* Lines 70-80 with the answer newRes of the fetch of line 70: the callback
\* goes on unless the fetch failed or extractURL throws
NewAccepted(newRes) ==
    /\ newRes.ok
    /\ URLMatches(Prop(readKV(newRes.data), RepositoryKey))

\* Lines 82 and 88: the statuses whose branch awaits a second fetch, that
\* of the old record (lines 83, 90)
AwaitsOld(file) == file.status \in {"modified", "renamed"}

\* Lines 86-87 and 94-96: the text of the branches without a second fetch
TextWithoutOld(file, newPlugin) ==
    LET url == extractURL(Prop(newPlugin, RepositoryKey))
    IN IF file.status = "added"
       THEN <<"New plugin ", BT>> \o PluginName(file)
                \o <<BT, ": https://github.com/">> \o url.user
                \o <<"/">> \o url.repo \o <<"/tree/">>
                \o Prop(newPlugin, CommitKey)
       ELSE <<"What is a ", BT, file.status, BT, "?">>

\* Lines 85 and 91-92: what comes before the compare link
OldPrefix(file) ==
    IF file.status = "modified"
    THEN <<BT>> \o PluginName(file) \o <<BT, ": ">>
    ELSE <<BT>> \o RemoveFirst(file.previous_filename, "plugins/")
             \o <<BT, " renamed to ", BT>> \o PluginName(file)
             \o <<BT, "; this will cause all current installs to become uninstalled.", "\n">>

\* Lines 83-85 and 90-93 with the answer oldRes of the second fetch
NarrativeWithOld(file, newPlugin, oldRes) ==
    WithOld(oldRes, newPlugin, extractURL(Prop(newPlugin, RepositoryKey)).user,
            OldPrefix(file))

\* The callback as a whole, from the answers of its one or two fetches
Narrative(file, newRes, oldRes) ==
    IF file.status = "removed" THEN Returned(RemovedText(file))
    ELSE IF ~NewAccepted(newRes) THEN Thrown
    ELSE LET newPlugin == readKV(newRes.data)
         IN IF AwaitsOld(file) THEN NarrativeWithOld(file, newPlugin, oldRes)
            ELSE Returned(TextWithoutOld(file, newPlugin))

-----------------------------------------------------------------------------
(* The GitHub server: labels and comments of the issue *)

\* POST .../labels: adding a label the issue already has is accepted
AddLabels(ls, label) == ls \cup {label}

\* DELETE .../labels/{name}: answers 404 when the issue does not have the
\* label, which the client raises as an exception
RemoveLabelAccepted(ls, label) == label \in ls

RemoveLabel(ls, label) == ls \ {label}

\* POST .../comments: the new comment goes last, with a fresh id
CreateComment(cs, body) == Append(cs, [id |-> Len(cs) + 1, body |-> body])

\* PATCH .../comments/{id}: the body is replaced
UpdateComment(cs, id, body) ==
    [i \in DOMAIN cs |-> IF cs[i].id = id THEN [cs[i] EXCEPT !.body = body]
                         ELSE cs[i]]

-----------------------------------------------------------------------------
(* Pure parts of the PR-content handler *)

\* A variant of lines 29-33 that never removes a label
SetHasLabelCall_NeverRemove(labelSet, condition, label) ==
    IF condition /\ label \notin labelSet THEN "addLabels" ELSE "none"

\* A variant of lines 29-33 that adds without looking at the label snapshot
SetHasLabelCall_AddUnchecked(labelSet, condition, label) ==
    IF condition THEN "addLabels"
    ELSE IF label \in labelSet THEN "removeLabel"
    ELSE "none"

\* A variant of lines 29-33 that never removes ready to merge
SetHasLabelCall_KeepsReady(labelSet, condition, label) ==
    IF condition /\ label \notin labelSet THEN "addLabels"
    ELSE IF ~condition /\ label \in labelSet /\ label # READY_TO_MERGE
    THEN "removeLabel"
    ELSE "none"

\* What setHasLabel does, lines 29-33, given the invocation's label snapshot
SetHasLabelCall(labelSet, condition, label) ==
    IF condition /\ label \notin labelSet THEN "addLabels"
    ELSE IF ~condition /\ label \in labelSet THEN "removeLabel"
    ELSE "none"

\* A variant that looks for "plugins/" anywhere in the path
IsPluginFile_Anywhere(f) ==
    \E i \in DOMAIN f.filename : f.filename[i] = "plugins/"

\* Lines 44-51
IsPluginFile(f) == StartsWith(f.filename, <<"plugins/">>)

\* A variant that knows build.gradle only
IsDependencyFile_GradleOnly(f) ==
    /\ ~IsPluginFile(f)
    /\ f.filename = BuildGradle

IsDependencyFile(f) ==
    /\ ~IsPluginFile(f)
    /\ \/ f.filename = BuildGradle
       \/ f.filename = VerificationMetadata

IsOtherFile(f) == ~IsPluginFile(f) /\ ~IsDependencyFile(f)

\* Lines 97-101: join the narratives, then the warning line
Difftext(texts, depFiles, othFiles) ==
    LET joined == Join(texts, <<"\n\n">>)
    IN IF Len(depFiles) > 0 \/ Len(othFiles) > 0
       THEN <<"**Includes non-plugin changes**", "\n\n">> \o joined
       ELSE joined

\* Line 104
Body(text) == marker \o <<"\n">> \o text

\* Lines 105-106: the id of the first comment whose body starts with the
\* marker, 0 when find() returns undefined
FindSticky(cs) ==
    IF \E i \in DOMAIN cs : StartsWith(cs[i].body, marker)
    THEN cs[CHOOSE i \in DOMAIN cs :
                /\ StartsWith(cs[i].body, marker)
                /\ \A j \in 1..(i - 1) : ~StartsWith(cs[j].body, marker)].id
    ELSE 0

\* A variant of lines 107-111 that appends a comment per event
UpsertCall_AlwaysCreate(stickyId, text) ==
    IF text # <<>> THEN "createComment" ELSE "none"

\* Lines 107-111
UpsertCall(stickyId, text) ==
    IF stickyId # 0 THEN "updateComment"
    ELSE IF text # <<>> THEN "createComment"
    ELSE "none"

-----------------------------------------------------------------------------
(* Pure parts of the review handler *)

\* A variant of line 132 that looks at the state only
Approved_StateOnly(r) == r.state = "APPROVED"

\* Line 132
Approved(r) == r.state = "APPROVED" \/ r.body = <<"lgtm">>

\* Line 133
Decisive(r) == Approved(r) \/ (~Approved(r) /\ r.state # "COMMENTED")

\* A first-write-wins variant of line 134: an existing entry is kept
SetEntry_FirstWins(acc, login, approved) ==
    [k \in DOMAIN acc \cup {login} |-> IF k \in DOMAIN acc THEN acc[k] ELSE approved]

\* Line 134: reviewStates[r.user.login] = approved; as in readKV, an
\* assignment to the key __proto__ adds no property
SetEntry(acc, login, approved) ==
    IF login = "__proto__" THEN acc
    ELSE [k \in DOMAIN acc \cup {login} |-> IF k = login THEN approved ELSE acc[k]]

\* Lines 130-136: filter by membership, then forEach in list order
RECURSIVE ReviewStatesFrom(_, _, _)
ReviewStatesFrom(acc, rs, memberSet) ==
    IF rs = <<>> THEN acc
    ELSE LET r == Head(rs)
             next == IF r.login \in memberSet /\ Decisive(r)
                     THEN SetEntry(acc, r.login, Approved(r))
                     ELSE acc
         IN ReviewStatesFrom(next, Tail(rs), memberSet)

\* A variant of line 130 without the membership filter
ReviewStates_NoFilter(rs, memberSet) ==
    ReviewStatesFrom(<<>>, rs, {rs[i].login : i \in DOMAIN rs})

ReviewStates(rs, memberSet) == ReviewStatesFrom(<<>>, rs, memberSet)

\* Line 137
Unapproved(states) == {k \in DOMAIN states : ~states[k]}

\* A variant of lines 139-148 in which any approval outweighs a rejection
ReviewCall_ApprovalWins(labelSet, states) ==
    IF \E k \in DOMAIN states : states[k]
    THEN IF READY_TO_MERGE \notin labelSet THEN "addLabels" ELSE "none"
    ELSE IF Cardinality(Unapproved(states)) > 0
    THEN IF READY_TO_MERGE \in labelSet THEN "removeLabel" ELSE "none"
    ELSE "none"

\* A variant of lines 139-148 without the non-empty test of line 144
ReviewCall_AddOnEmpty(labelSet, states) ==
    IF Cardinality(Unapproved(states)) > 0
    THEN IF READY_TO_MERGE \in labelSet THEN "removeLabel" ELSE "none"
    ELSE IF READY_TO_MERGE \notin labelSet THEN "addLabels" ELSE "none"

\* Lines 139-148, given the invocation's label snapshot
ReviewCall(labelSet, states) ==
    IF Cardinality(Unapproved(states)) > 0
    THEN IF READY_TO_MERGE \in labelSet THEN "removeLabel" ELSE "none"
    ELSE IF Cardinality(DOMAIN states) # 0
    THEN IF READY_TO_MERGE \notin labelSet THEN "addLabels" ELSE "none"
    ELSE "none"

-----------------------------------------------------------------------------
(* The webhook events of lines 22 and 114 *)

PULL_REQUEST == "pull_request"
REVIEW_SUBMITTED == "pull_request_review.submitted"

-----------------------------------------------------------------------------
(* Inputs: what the GitHub API may answer *)

Procs == {1, 2}

Logins == {"alice", "bob"}

ReviewSet ==
    [login : Logins,
     state : {"APPROVED", "COMMENTED", "CHANGES_REQUESTED"},
     body : {<<"lgtm">>, <<"needs work">>}]

ReviewLists == UNION {[1..n -> ReviewSet] : n \in 0..MaxReviews}

PluginFile(n, st) ==
    [filename |-> <<"plugins/", n>>, status |-> st,
     previous_filename |-> IF st = "renamed" THEN <<"plugins/", "old">> ELSE <<>>]

\* One plugin file in each status the callback tells apart ("copied" stands
\* for the statuses it does not know), and a second one to list beside it
PluginFileSet ==
    {PluginFile("foo", st) :
        st \in {"added", "modified", "removed", "renamed", "copied"}}
    \cup {PluginFile("bar", st) : st \in {"added", "removed"}}

NonPluginFileSet ==
    {[filename |-> n, status |-> "modified", previous_filename |-> <<>>] :
        n \in {BuildGradle, VerificationMetadata, <<"README.md">>}}

FileSet == PluginFileSet \cup NonPluginFileSet

\* A PR lists each path once
FileLists ==
    {fs \in UNION {[1..n -> FileSet] : n \in 0..MaxFiles} :
        \A i, j \in DOMAIN fs : i # j => fs[i].filename # fs[j].filename}

GoodURL ==
    <<"h", "t", "t", "p", "s", ":", "/", "/", "g", "i", "t", "h", "u", "b",
      ".", "c", "o", "m", "/", "a", "l", "i", "c", "e", "/", "f", "o", "o",
      ".", "g", "i", "t">>

SshURL ==
    <<"g", "i", "t", "@", "g", "i", "t", "h", "u", "b", ".", "c", "o", "m",
      ":", "a", "l", "i", "c", "e", "/", "f", "o", "o", ".", "g", "i", "t">>

\* A clone URL whose repository name holds a dot
DotRepoURL ==
    <<"h", "t", "t", "p", "s", ":", "/", "/", "g", "i", "t", "h", "u", "b",
      ".", "c", "o", "m", "/", "a", "l", "i", "c", "e", "/", "f", "o", "o",
      ".", "b", "a", "r", ".", "g", "i", "t">>

NewCommit ==
    <<"a", "b", "c", "1", "2", "3">>

OldCommit ==
    <<"o", "l", "d", "1", "1", "1">>

RepositoryLine(url) == RepositoryKey \o <<"=">> \o url
CommitLine(commit) == CommitKey \o <<"=">> \o commit

NewContent == <<RepositoryLine(GoodURL), CommitLine(NewCommit), <<>> >>
OldContent == <<RepositoryLine(GoodURL), CommitLine(OldCommit), <<>> >>
SshContent == <<RepositoryLine(SshURL), CommitLine(NewCommit), <<>> >>
NoRepoContent == <<CommitLine(NewCommit), <<>> >>
DotRepoContent == <<RepositoryLine(DotRepoURL), CommitLine(NewCommit), <<>> >>

\* NewContent with CRLF line ends: split at "\n", each line keeps its "\r"
CrlfContent ==
    <<RepositoryLine(GoodURL) \o <<"\r">>, CommitLine(NewCommit) \o <<"\r">>, <<>> >>

FetchFailed == [ok |-> FALSE, data |-> <<>>]
Fetched(d) == [ok |-> TRUE, data |-> d]

NewResponses ==
    {Fetched(NewContent), Fetched(CrlfContent), Fetched(SshContent),
     Fetched(DotRepoContent), Fetched(NoRepoContent), FetchFailed}
OldResponses == {Fetched(OldContent), Fetched(SshContent), FetchFailed}

UserBody == <<"Looks interesting">>
OldStickyBody == Body(<<"Removed ", BT, "old", BT, " plugin">>)

InitComments ==
    { <<>>,
      <<[id |-> 1, body |-> UserBody]>>,
      <<[id |-> 1, body |-> UserBody], [id |-> 2, body |-> OldStickyBody]>> }

\* Why an awaited promise rejects: the API refuses the removal of a label
\* the issue does not carry (404), an API request fails for a reason that is
\* not in the issue's state (network, rate limit, 5xx), or a callback of
\* lines 58-96 throws
NoError == "none"
LabelAbsent == "label absent"
RequestFailed == "request failed"
CallbackThrew == "callback threw"

\* A callback of line 58: it awaits the fetch of line 70, or it holds
\* newPlugin and awaits the fetch of line 83 / 90, or it has returned t
Pending == [done |-> FALSE, text |-> <<>>, awaiting |-> "new", newPlugin |-> <<>>]
AwaitingOld(np) ==
    [done |-> FALSE, text |-> <<>>, awaiting |-> "old", newPlugin |-> np]
Fulfilled(t) == [done |-> TRUE, text |-> t, awaiting |-> "none", newPlugin |-> <<>>]

-----------------------------------------------------------------------------
(* State *)

NoLocals(v) == [p \in Procs |-> v]

Init ==
    /\ labels \in SUBSET Labels
    /\ comments \in InitComments
    /\ pc = NoLocals("idle")
    /\ handling = NoLocals("none")
    /\ snapshot = NoLocals({})
    /\ files = NoLocals(<<>>)
    /\ pluginFiles = NoLocals(<<>>)
    /\ dependencyFiles = NoLocals(<<>>)
    /\ otherFiles = NoLocals(<<>>)
    /\ results = NoLocals(<<>>)
    /\ settled = NoLocals(<<>>)
    /\ difftext = NoLocals(<<>>)
    /\ sticky = NoLocals(0)
    /\ reviews = NoLocals(<<>>)
    /\ members = NoLocals({})
    /\ reviewStates = NoLocals(<<>>)
    /\ calls = NoLocals(<<>>)
    /\ writes = NoLocals(<<>>)
    /\ failed = NoLocals(FALSE)
    /\ error = NoLocals(NoError)
    /\ before = NoLocals([labels |-> {}, comments |-> <<>>])
    /\ events = 0

serverVars == <<labels, comments>>
prLocals == <<handling, files, pluginFiles, dependencyFiles, otherFiles, results,
              settled, difftext, sticky>>
rvLocals == <<reviews, members, reviewStates>>

Idle(p) == pc[p] = "idle"

\* A variant in which the exception is swallowed and the invocation goes on
Throw_Swallowed(p, e) ==
    /\ failed' = [failed EXCEPT ![p] = TRUE]
    /\ error' = [error EXCEPT ![p] = e]
    /\ UNCHANGED pc

\* No handler has a try/catch: an awaited promise that rejects with e ends
\* the invocation, and nothing after it runs
Throw(p, e) ==
    /\ failed' = [failed EXCEPT ![p] = TRUE]
    /\ error' = [error EXCEPT ![p] = e]
    /\ pc' = [pc EXCEPT ![p] = "done"]

Goto(p, to) ==
    /\ pc' = [pc EXCEPT ![p] = to]
    /\ UNCHANGED <<failed, error>>

Log(p, w) == writes' = [writes EXCEPT ![p] = Append(@, w)]

-----------------------------------------------------------------------------
(* setHasLabel, lines 28-34, as one awaited call of invocation p *)

CallRecord(condition, label, call, e, after) ==
    [condition |-> condition, label |-> label, call |-> call,
     pre |-> labels, after |-> after, threw |-> e # NoError, error |-> e]

setHasLabel(p, condition, label, to) ==
    LET call == SetHasLabelCall(snapshot[p], condition, label)
    IN \/ /\ call = "addLabels"
          /\ labels' = AddLabels(labels, label)
          /\ Log(p, [op |-> "addLabels", arg |-> label])
          /\ calls' = [calls EXCEPT ![p] =
                 Append(@, CallRecord(condition, label, call, NoError, labels'))]
          /\ Goto(p, to)
       \/ /\ call = "removeLabel"
          /\ RemoveLabelAccepted(labels, label)
          /\ labels' = RemoveLabel(labels, label)
          /\ Log(p, [op |-> "removeLabel", arg |-> label])
          /\ calls' = [calls EXCEPT ![p] =
                 Append(@, CallRecord(condition, label, call, NoError, labels'))]
          /\ Goto(p, to)
       \/ /\ call = "removeLabel"
          /\ ~RemoveLabelAccepted(labels, label)
          /\ UNCHANGED labels
          /\ Log(p, [op |-> "removeLabel", arg |-> label])
          /\ calls' = [calls EXCEPT ![p] =
                 Append(@, CallRecord(condition, label, call, LabelAbsent, labels))]
          /\ Throw(p, LabelAbsent)
       \/ /\ call \in {"addLabels", "removeLabel"}
          /\ UNCHANGED labels
          /\ Log(p, [op |-> call, arg |-> label])
          /\ calls' = [calls EXCEPT ![p] =
                 Append(@, CallRecord(condition, label, call, RequestFailed, labels))]
          /\ Throw(p, RequestFailed)
       \/ /\ call = "none"
          /\ UNCHANGED <<labels, writes>>
          /\ calls' = [calls EXCEPT ![p] =
                 Append(@, CallRecord(condition, label, call, NoError, labels))]
          /\ Goto(p, to)

-----------------------------------------------------------------------------
(* The PR-content handler, lines 22-112 *)

\* Lines 25-26 and 118-119: listLabelsOnIssue answers with the issue's
\* labels, or the request fails
ListLabels(p, to) ==
    \/ /\ snapshot' = [snapshot EXCEPT ![p] = labels]
       /\ Goto(p, to)
    \/ /\ UNCHANGED snapshot
       /\ Throw(p, RequestFailed)

\* Lines 22-26: the delivery starts an invocation, which lists the labels
PRDelivered(p) ==
    /\ Idle(p)
    /\ events < MaxEvents
    /\ events' = events + 1
    /\ handling' = [handling EXCEPT ![p] = PULL_REQUEST]
    /\ before' = [before EXCEPT ![p] = [labels |-> labels, comments |-> comments]]
    /\ ListLabels(p, "pr_clear")
    /\ UNCHANGED <<serverVars, files, pluginFiles, dependencyFiles, otherFiles,
                   results, settled, difftext, sticky, rvLocals, calls, writes>>

\* Line 36
PRClear(p) ==
    /\ pc[p] = "pr_clear"
    /\ setHasLabel(p, FALSE, READY_TO_MERGE, "pr_listFiles")
    /\ UNCHANGED <<comments, snapshot, prLocals, rvLocals, before, events>>

\* Lines 38-52: the forEach over the file list fs pushes each file onto one
\* of the three arrays
Classify(p, fs) ==
    /\ pluginFiles' = [pluginFiles EXCEPT ![p] = SelectSeq(fs, IsPluginFile)]
    /\ dependencyFiles' =
           [dependencyFiles EXCEPT ![p] = SelectSeq(fs, IsDependencyFile)]
    /\ otherFiles' = [otherFiles EXCEPT ![p] = SelectSeq(fs, IsOtherFile)]

\* Lines 38-52: the file list is fetched and partitioned, or the fetch fails
PRListFiles(p) ==
    /\ pc[p] = "pr_listFiles"
    /\ \/ \E fs \in FileLists :
            /\ Classify(p, fs)
            /\ Goto(p, "pr_plugin")
       \/ /\ Throw(p, RequestFailed)
          /\ UNCHANGED <<pluginFiles, dependencyFiles, otherFiles>>
    /\ UNCHANGED <<serverVars, handling, snapshot, files, results, settled,
                   difftext, sticky, rvLocals, calls, writes, before, events>>

\* Line 54
PRPlugin(p) ==
    /\ pc[p] = "pr_plugin"
    /\ setHasLabel(p, Len(pluginFiles[p]) > 0, PLUGIN_CHANGE, "pr_dependency")
    /\ UNCHANGED <<comments, snapshot, prLocals, rvLocals, before, events>>

\* Line 55
PRDependency(p) ==
    /\ pc[p] = "pr_dependency"
    /\ setHasLabel(p, Len(dependencyFiles[p]) > 0, DEPENDENCY_CHANGE, "pr_package")
    /\ UNCHANGED <<comments, snapshot, prLocals, rvLocals, before, events>>

\* Line 58: map calls the callback of every plugin file, in list order.
\* Each runs to its first await: that of a removed file returns at once,
\* the others have sent the fetch of line 70.
StartCallbacks(fs) ==
    [i \in 1..Len(fs) |->
        IF fs[i].status = "removed" THEN Fulfilled(RemovedText(fs[i])) ELSE Pending]

\* The indices of the callbacks that returned at once, in list order
ReturnedAtOnce(fs) ==
    LET IsRemoved(i) == fs[i].status = "removed"
    IN SelectSeq([i \in 1..Len(fs) |-> i], IsRemoved)

\* Line 56, and line 58 where every plugin file's callback is started
PRPackage(p) ==
    /\ pc[p] = "pr_package"
    /\ setHasLabel(p, Len(otherFiles[p]) > 0, PACKAGE_CHANGE, "pr_narrate")
    /\ results' = [results EXCEPT ![p] =
           IF failed'[p] THEN @ ELSE StartCallbacks(pluginFiles[p])]
    /\ settled' = [settled EXCEPT ![p] =
           IF failed'[p] THEN @ ELSE ReturnedAtOnce(pluginFiles[p])]
    /\ UNCHANGED <<comments, handling, snapshot, files, pluginFiles, dependencyFiles,
                   otherFiles, difftext, sticky, rvLocals, before, events>>

\* Lines 70-96 for each plugin file and each answer to the fetch of line 70
\* of the input sets, evaluated once for each: the callback throws, or goes
\* on to the second fetch with newPlugin, or returns text
AfterNew ==
    [file \in PluginFileSet |->
        [newRes \in NewResponses |->
            IF ~NewAccepted(newRes)
            THEN [threw |-> TRUE, awaitsOld |-> FALSE, newPlugin |-> <<>>,
                  text |-> <<>>]
            ELSE IF AwaitsOld(file)
            THEN [threw |-> FALSE, awaitsOld |-> TRUE,
                  newPlugin |-> readKV(newRes.data), text |-> <<>>]
            ELSE [threw |-> FALSE, awaitsOld |-> FALSE, newPlugin |-> <<>>,
                  text |-> TextWithoutOld(file, readKV(newRes.data))]]]

\* The records a callback can hold when it awaits its second fetch
NewPlugins == {readKV(newRes.data) : newRes \in {r \in NewResponses : NewAccepted(r)}}

\* Lines 83-85 and 90-93 for each file, record and answer to the second
\* fetch of the input sets, evaluated once for each
AfterOld ==
    [file \in {f \in PluginFileSet : AwaitsOld(f)} |->
        [newPlugin \in NewPlugins |->
            [oldRes \in OldResponses |->
                NarrativeWithOld(file, newPlugin, oldRes)]]]

\* A variant that keeps the texts in the order in which they arrive
Settle_Push(rs, i, text) ==
    LET first == CHOOSE j \in DOMAIN rs :
                     ~rs[j].done /\ \A k \in DOMAIN rs : k < j => rs[k].done
    IN [rs EXCEPT ![first] = Fulfilled(text)]

\* Line 58: Promise.all keeps the value of the i-th promise at index i
Settle(rs, i, text) == [rs EXCEPT ![i] = Fulfilled(text)]

\* Lines 70-96: the fetch of line 70 of one callback is answered, the
\* fetches being answered in any order.  The callback throws, which rejects
\* Promise.all, or sends its second fetch and waits again, or returns.
PRFetchNew(p) ==
    /\ pc[p] = "pr_narrate"
    /\ \E i \in DOMAIN results[p] :
         /\ results[p][i].awaiting = "new"
         /\ \E newRes \in NewResponses :
              LET a == AfterNew[pluginFiles[p][i]][newRes]
              IN IF a.threw
                 THEN /\ Throw(p, CallbackThrew)
                      /\ UNCHANGED <<results, settled>>
                 ELSE IF a.awaitsOld
                 THEN /\ results' = [results EXCEPT ![p][i] = AwaitingOld(a.newPlugin)]
                      /\ UNCHANGED <<settled, pc, failed, error>>
                 ELSE /\ results' = [results EXCEPT ![p] = Settle(@, i, a.text)]
                      /\ settled' = [settled EXCEPT ![p] = Append(@, i)]
                      /\ UNCHANGED <<pc, failed, error>>
    /\ UNCHANGED <<serverVars, handling, snapshot, files, pluginFiles, dependencyFiles,
                   otherFiles, difftext, sticky, rvLocals, calls, writes, before,
                   events>>

\* Lines 83-85 and 90-93: the second fetch of one callback is answered; the
\* callback returns its text, or throws
PRFetchOld(p) ==
    /\ pc[p] = "pr_narrate"
    /\ \E i \in DOMAIN results[p] :
         /\ results[p][i].awaiting = "old"
         /\ \E oldRes \in OldResponses :
              LET r == AfterOld[pluginFiles[p][i]][results[p][i].newPlugin][oldRes]
              IN IF r.ok
                 THEN /\ results' = [results EXCEPT ![p] = Settle(@, i, r.text)]
                      /\ settled' = [settled EXCEPT ![p] = Append(@, i)]
                      /\ UNCHANGED <<pc, failed, error>>
                 ELSE /\ Throw(p, CallbackThrew)
                      /\ UNCHANGED <<results, settled>>
    /\ UNCHANGED <<serverVars, handling, snapshot, files, pluginFiles, dependencyFiles,
                   otherFiles, difftext, sticky, rvLocals, calls, writes, before,
                   events>>

ResultTexts(rs) == [i \in DOMAIN rs |-> rs[i].text]

\* Lines 97-106: Promise.all is fulfilled; the text is joined and the
\* comments are listed, or listing them fails
PRListComments(p) ==
    /\ pc[p] = "pr_narrate"
    /\ \A i \in DOMAIN results[p] : results[p][i].done
    /\ difftext' = [difftext EXCEPT ![p] =
           Difftext(ResultTexts(results[p]), dependencyFiles[p], otherFiles[p])]
    /\ \/ /\ sticky' = [sticky EXCEPT ![p] = FindSticky(comments)]
          /\ Goto(p, "pr_upsert")
       \/ /\ UNCHANGED sticky
          /\ Throw(p, RequestFailed)
    /\ UNCHANGED <<serverVars, handling, snapshot, files, pluginFiles, dependencyFiles,
                   otherFiles, results, settled, rvLocals, calls, writes, before,
                   events>>

\* Lines 107-111
PRUpsert(p) ==
    /\ pc[p] = "pr_upsert"
    /\ LET call == UpsertCall(sticky[p], difftext[p])
           body == Body(difftext[p])
       IN \/ /\ call = "updateComment"
             /\ comments' = UpdateComment(comments, sticky[p], body)
             /\ Log(p, [op |-> "updateComment", arg |-> body])
             /\ Goto(p, "done")
          \/ /\ call = "createComment"
             /\ comments' = CreateComment(comments, body)
             /\ Log(p, [op |-> "createComment", arg |-> body])
             /\ Goto(p, "done")
          \/ /\ call \in {"updateComment", "createComment"}
             /\ UNCHANGED comments
             /\ Log(p, [op |-> call, arg |-> body])
             /\ Throw(p, RequestFailed)
          \/ /\ call = "none"
             /\ UNCHANGED <<comments, writes>>
             /\ Goto(p, "done")
    /\ UNCHANGED <<labels, snapshot, prLocals, rvLocals, calls, before, events>>

-----------------------------------------------------------------------------
(* The review handler, lines 114-149 *)

\* A variant that goes on whatever the labels are
ReturnsWithoutPluginChange_Never(labelSet) == FALSE

\* Line 121: the handler returns when the issue is not a plugin change
ReturnsWithoutPluginChange(labelSet) == PLUGIN_CHANGE \notin labelSet

\* Lines 114-121
RVDelivered(p) ==
    /\ Idle(p)
    /\ events < MaxEvents
    /\ events' = events + 1
    /\ handling' = [handling EXCEPT ![p] = REVIEW_SUBMITTED]
    /\ before' = [before EXCEPT ![p] = [labels |-> labels, comments |-> comments]]
    /\ ListLabels(p, IF ReturnsWithoutPluginChange(labels) THEN "done"
                     ELSE "rv_listReviews")
    /\ UNCHANGED <<serverVars, files, pluginFiles, dependencyFiles, otherFiles,
                   results, settled, difftext, sticky, rvLocals, calls, writes>>

\* Lines 123-124
RVListReviews(p) ==
    /\ pc[p] = "rv_listReviews"
    /\ \/ \E rs \in ReviewLists :
            /\ reviews' = [reviews EXCEPT ![p] = rs]
            /\ Goto(p, IF Len(rs) <= 0 THEN "done" ELSE "rv_listMembers")
       \/ /\ UNCHANGED reviews
          /\ Throw(p, RequestFailed)
    /\ UNCHANGED <<serverVars, snapshot, prLocals, members, reviewStates, calls,
                   writes, before, events>>

\* Lines 126-137
RVListMembers(p) ==
    /\ pc[p] = "rv_listMembers"
    /\ \/ \E ms \in SUBSET Logins :
            /\ members' = [members EXCEPT ![p] = ms]
            /\ reviewStates' =
                   [reviewStates EXCEPT ![p] = ReviewStates(reviews[p], ms)]
            /\ Goto(p, "rv_apply")
       \/ /\ UNCHANGED <<members, reviewStates>>
          /\ Throw(p, RequestFailed)
    /\ UNCHANGED <<serverVars, snapshot, prLocals, reviews, calls, writes,
                   before, events>>

\* Lines 139-148
RVApply(p) ==
    /\ pc[p] = "rv_apply"
    /\ LET call == ReviewCall(snapshot[p], reviewStates[p])
       IN \/ /\ call = "removeLabel"
             /\ RemoveLabelAccepted(labels, READY_TO_MERGE)
             /\ labels' = RemoveLabel(labels, READY_TO_MERGE)
             /\ Log(p, [op |-> "removeLabel", arg |-> READY_TO_MERGE])
             /\ Goto(p, "done")
          \/ /\ call = "removeLabel"
             /\ ~RemoveLabelAccepted(labels, READY_TO_MERGE)
             /\ UNCHANGED labels
             /\ Log(p, [op |-> "removeLabel", arg |-> READY_TO_MERGE])
             /\ Throw(p, LabelAbsent)
          \/ /\ call \in {"addLabels", "removeLabel"}
             /\ UNCHANGED labels
             /\ Log(p, [op |-> call, arg |-> READY_TO_MERGE])
             /\ Throw(p, RequestFailed)
          \/ /\ call = "addLabels"
             /\ labels' = AddLabels(labels, READY_TO_MERGE)
             /\ Log(p, [op |-> "addLabels", arg |-> READY_TO_MERGE])
             /\ Goto(p, "done")
          \/ /\ call = "none"
             /\ UNCHANGED <<labels, writes>>
             /\ Goto(p, "done")
    /\ UNCHANGED <<comments, snapshot, prLocals, rvLocals, calls, before, events>>

-----------------------------------------------------------------------------
(* The end of an invocation: its local variables are gone *)

Return(p) ==
    /\ pc[p] = "done"
    /\ pc' = [pc EXCEPT ![p] = "idle"]
    /\ snapshot' = [snapshot EXCEPT ![p] = {}]
    /\ files' = [files EXCEPT ![p] = <<>>]
    /\ pluginFiles' = [pluginFiles EXCEPT ![p] = <<>>]
    /\ dependencyFiles' = [dependencyFiles EXCEPT ![p] = <<>>]
    /\ otherFiles' = [otherFiles EXCEPT ![p] = <<>>]
    /\ results' = [results EXCEPT ![p] = <<>>]
    /\ settled' = [settled EXCEPT ![p] = <<>>]
    /\ difftext' = [difftext EXCEPT ![p] = <<>>]
    /\ sticky' = [sticky EXCEPT ![p] = 0]
    /\ reviews' = [reviews EXCEPT ![p] = <<>>]
    /\ members' = [members EXCEPT ![p] = {}]
    /\ reviewStates' = [reviewStates EXCEPT ![p] = <<>>]
    /\ calls' = [calls EXCEPT ![p] = <<>>]
    /\ writes' = [writes EXCEPT ![p] = <<>>]
    /\ failed' = [failed EXCEPT ![p] = FALSE]
    /\ error' = [error EXCEPT ![p] = NoError]
    /\ before' = [before EXCEPT ![p] = [labels |-> {}, comments |-> <<>>]]
    /\ UNCHANGED <<serverVars, handling, events>>

-----------------------------------------------------------------------------
(* The label reconciler on its own: an invocation that takes its label     *)
(* snapshot (lines 25-26) and then calls setHasLabel (lines 28-34) with any *)
(* arguments, any number of times up to MaxCalls                           *)

ReconcilerStart(p) ==
    /\ Idle(p)
    /\ events < MaxEvents
    /\ events' = events + 1
    /\ handling' = [handling EXCEPT ![p] = "setHasLabel"]
    /\ before' = [before EXCEPT ![p] = [labels |-> labels, comments |-> comments]]
    /\ ListLabels(p, "reconcile")
    /\ UNCHANGED <<serverVars, files, pluginFiles, dependencyFiles, otherFiles,
                   results, settled, difftext, sticky, rvLocals, calls, writes>>

ReconcilerCall(p) ==
    /\ pc[p] = "reconcile"
    /\ Len(calls[p]) < MaxCalls
    /\ \E condition \in BOOLEAN, label \in Labels :
         setHasLabel(p, condition, label, "reconcile")
    /\ UNCHANGED <<comments, snapshot, prLocals, rvLocals, before, events>>

ReconcilerEnd(p) ==
    /\ pc[p] = "reconcile"
    /\ Goto(p, "done")
    /\ UNCHANGED <<serverVars, snapshot, prLocals, rvLocals, calls, writes,
                   before, events>>

NextReconciler ==
    \/ ReconcilerStart(1)
    \/ ReconcilerCall(1)
    \/ ReconcilerEnd(1)
    \/ Return(1)

SpecReconciler == Init /\ [][NextReconciler]_vars

-----------------------------------------------------------------------------
(* The classifier on its own, lines 38-52, over file lists of up to        *)
(* MaxPaths paths, some of which are close to the paths it looks for      *)

ClassifierPaths ==
    { <<"plugins/", "foo">>,
      <<"package/", "plugins/", "foo">>,
      <<"plugins">>,
      BuildGradle,
      VerificationMetadata,
      BuildGradle \o <<".bak">>,
      <<"README.md">> }

ClassifierFiles ==
    {[filename |-> n, status |-> "modified", previous_filename |-> <<>>] :
        n \in ClassifierPaths}

ClassifierLists ==
    {fs \in UNION {[1..n -> ClassifierFiles] : n \in 0..MaxPaths} :
        \A i, j \in DOMAIN fs : i # j => fs[i].filename # fs[j].filename}

\* Lines 38-52 on their own: the file list is fetched (line 41) and
\* partitioned, or the fetch fails and nothing is classified
ClassifierRun(p) ==
    /\ Idle(p)
    /\ events < MaxEvents
    /\ events' = events + 1
    /\ handling' = [handling EXCEPT ![p] = "classify"]
    /\ \/ \E fs \in ClassifierLists :
            /\ files' = [files EXCEPT ![p] = fs]
            /\ Classify(p, fs)
            /\ Goto(p, "done")
       \/ /\ Throw(p, RequestFailed)
          /\ UNCHANGED <<files, pluginFiles, dependencyFiles, otherFiles>>
    /\ UNCHANGED <<serverVars, snapshot, results, settled, difftext, sticky,
                   rvLocals, calls, writes, before>>

NextClassifier ==
    \/ ClassifierRun(1)
    \/ Return(1)

SpecClassifier == Init /\ [][NextClassifier]_vars

-----------------------------------------------------------------------------
(* PR-content deliveries only, handled one after another *)

NextPullRequest ==
    \/ PRDelivered(1)
    \/ PRClear(1)
    \/ PRListFiles(1)
    \/ PRPlugin(1)
    \/ PRDependency(1)
    \/ PRPackage(1)
    \/ PRFetchNew(1)
    \/ PRFetchOld(1)
    \/ PRListComments(1)
    \/ PRUpsert(1)
    \/ Return(1)

SpecPullRequest == Init /\ [][NextPullRequest]_vars

-----------------------------------------------------------------------------
(* Review deliveries only, handled one after another *)

NextReview ==
    \/ RVDelivered(1)
    \/ RVListReviews(1)
    \/ RVListMembers(1)
    \/ RVApply(1)
    \/ Return(1)

SpecReview == Init /\ [][NextReview]_vars

-----------------------------------------------------------------------------
(* Deliveries of both kinds, handled one after another: no two invocations *)
(* overlap                                                                 *)

Next ==
    \/ PRDelivered(1)
    \/ PRClear(1)
    \/ PRListFiles(1)
    \/ PRPlugin(1)
    \/ PRDependency(1)
    \/ PRPackage(1)
    \/ PRFetchNew(1)
    \/ PRFetchOld(1)
    \/ PRListComments(1)
    \/ PRUpsert(1)
    \/ RVDelivered(1)
    \/ RVListReviews(1)
    \/ RVListMembers(1)
    \/ RVApply(1)
    \/ Return(1)

Spec == Init /\ [][Next]_vars

-----------------------------------------------------------------------------
(* Deliveries of both kinds, handled one after another, for an issue that  *)
(* carries ready to merge only together with plugin change when the first  *)
(* delivery arrives                                                        *)

InitReadyWithPlugin ==
    /\ Init
    /\ READY_TO_MERGE \in labels => PLUGIN_CHANGE \in labels

SpecReadyWithPlugin == InitReadyWithPlugin /\ [][Next]_vars

-----------------------------------------------------------------------------
(* Two deliveries for the same issue whose invocations overlap: each       *)
(* awaited call of one may come between two awaited calls of the other.    *)
(* A delivery takes the first free slot; file lists hold up to             *)
(* MaxOverlapFiles files and review lists up to MaxOverlapReviews reviews. *)

FirstFree(p) == Idle(p) /\ \A q \in Procs : q < p => ~Idle(q)

\* File lists of one path of each class; the plugin file in a status
\* without a fetch, with one fetch and with two
OverlapFileLists ==
    {fs \in FileLists :
        /\ Len(fs) <= MaxOverlapFiles
        /\ \A i \in DOMAIN fs :
               fs[i].filename \in {<<"plugins/", "foo">>, BuildGradle, <<"README.md">>}
        /\ \A i \in DOMAIN fs :
               fs[i].status \in {"added", "removed", "modified", "renamed"}}

\* The file list of invocation p, class by class
Classified(p) == pluginFiles'[p] \o dependencyFiles'[p] \o otherFiles'[p]

\* Review lists by one login, which is in the team or not
OverlapReviewLists ==
    {rs \in ReviewLists :
        /\ Len(rs) <= MaxOverlapReviews
        /\ \A i \in DOMAIN rs : rs[i].login = "alice"}

NextOverlap ==
    \/ \E p \in Procs : FirstFree(p) /\ PRDelivered(p)
    \/ \E p \in Procs : PRClear(p)
    \/ \E p \in Procs : PRListFiles(p) /\ Classified(p) \in OverlapFileLists
    \/ \E p \in Procs : PRPlugin(p)
    \/ \E p \in Procs : PRDependency(p)
    \/ \E p \in Procs : PRPackage(p)
    \/ \E p \in Procs : PRFetchNew(p)
    \/ \E p \in Procs : PRFetchOld(p)
    \/ \E p \in Procs : PRListComments(p)
    \/ \E p \in Procs : PRUpsert(p)
    \/ \E p \in Procs : FirstFree(p) /\ RVDelivered(p)
    \/ \E p \in Procs : RVListReviews(p) /\ reviews'[p] \in OverlapReviewLists
    \/ \E p \in Procs : RVListMembers(p)
    \/ \E p \in Procs : RVApply(p)
    \/ \E p \in Procs : Return(p)

SpecOverlap == Init /\ [][NextOverlap]_vars

-----------------------------------------------------------------------------
(* Properties of the review handler *)

\* The classification of a review as the specification words it
IsApproval(r) == r.state = "APPROVED" \/ r.body = <<"lgtm">>
IsRejection(r) == r.state \notin {"APPROVED", "COMMENTED"} /\ r.body # <<"lgtm">>
IsDecisive(r) == IsApproval(r) \/ IsRejection(r)

\* Invocation p handled a review event and has listed reviews and members
ReviewsJudged(p) ==
    /\ handling[p] = REVIEW_SUBMITTED
    /\ pc[p] = "done"
    /\ reviews[p] # <<>>

\* No API request of invocation p has failed.  Transport and API failures
\* abort the invocation and leave the outcome to a later delivery; the
\* properties of a handler's outcome are about the invocations they spare.
RequestsAnswered(p) == error[p] # RequestFailed

\* Member k's last decisive review in the list order, 0 if it has none
LastDecisive(rs, k) ==
    IF \E i \in DOMAIN rs : rs[i].login = k /\ IsDecisive(rs[i])
    THEN CHOOSE i \in DOMAIN rs :
             /\ rs[i].login = k /\ IsDecisive(rs[i])
             /\ \A j \in DOMAIN rs : j > i => ~(rs[j].login = k /\ IsDecisive(rs[j]))
    ELSE 0

SomeMemberRejected(p) ==
    \E i \in DOMAIN reviews[p] :
        reviews[p][i].login \in members[p] /\ IsRejection(reviews[p][i])

SomeMemberFinallyRejected(p) ==
    \E k \in members[p] :
        /\ LastDecisive(reviews[p], k) # 0
        /\ IsRejection(reviews[p][LastDecisive(reviews[p], k)])

\* C1 as stated: whenever the review list holds a decisive rejection by a
\* team member, the issue does not carry `ready to merge` after a handler
\* whose requests were all answered.
C1_AnyRejectionBlocks ==
    \A p \in Procs :
        (ReviewsJudged(p) /\ RequestsAnswered(p) /\ SomeMemberRejected(p))
            => READY_TO_MERGE \notin labels

\* C1 amended: whenever some team member's last decisive review is a
\* rejection, the issue does not carry `ready to merge` after the handler
\* has judged the reviews and its requests were all answered, however many
\* approvals are in the list.
C1_FinalRejectionBlocks ==
    \A p \in Procs :
        (ReviewsJudged(p) /\ RequestsAnswered(p) /\ SomeMemberFinallyRejected(p))
            => READY_TO_MERGE \notin labels

\* One member approved, another rejected, and the label was removed
C1_Witness ==
    \E p \in Procs :
        /\ ReviewsJudged(p)
        /\ RequestsAnswered(p)
        /\ SomeMemberFinallyRejected(p)
        /\ \E k \in members[p] :
               /\ LastDecisive(reviews[p], k) # 0
               /\ IsApproval(reviews[p][LastDecisive(reviews[p], k)])
        /\ READY_TO_MERGE \in before[p].labels
        /\ READY_TO_MERGE \notin labels

\* C3: each team member's entry in the decision map is the verdict of that
\* member's last decisive review in list order, and only members with a
\* decisive review have an entry.
C3_LastDecisiveWins ==
    \A p \in Procs :
        ReviewsJudged(p) =>
            /\ DOMAIN reviewStates[p] =
                   {k \in members[p] : LastDecisive(reviews[p], k) # 0}
            /\ \A k \in DOMAIN reviewStates[p] :
                   reviewStates[p][k] =
                       IsApproval(reviews[p][LastDecisive(reviews[p], k)])

\* A member requested changes and approved later: the decision is approved
C3_Witness ==
    \E p \in Procs :
        /\ ReviewsJudged(p)
        /\ \E k \in members[p] :
               /\ Len(reviews[p]) = 2
               /\ reviews[p][1] = [login |-> k, state |-> "CHANGES_REQUESTED",
                                   body |-> <<"needs work">>]
               /\ reviews[p][2] = [login |-> k, state |-> "APPROVED",
                                   body |-> <<"needs work">>]
               /\ reviewStates[p][k] = TRUE

\* C4: on an issue that carried `plugin change` and not `ready to merge`,
\* the label is present after a review handler whose requests were all
\* answered exactly when the decision map is non-empty and has no false
\* entry.
C4_ReadyIffApprovedByAll ==
    \A p \in Procs :
        ( /\ handling[p] = REVIEW_SUBMITTED
          /\ pc[p] = "done"
          /\ RequestsAnswered(p)
          /\ PLUGIN_CHANGE \in before[p].labels
          /\ READY_TO_MERGE \notin before[p].labels )
        => ( READY_TO_MERGE \in labels <=>
               /\ DOMAIN reviewStates[p] # {}
               /\ \A k \in DOMAIN reviewStates[p] : reviewStates[p][k] )

\* The handler added the label on an approval
C4_Witness ==
    \E p \in Procs :
        /\ handling[p] = REVIEW_SUBMITTED
        /\ pc[p] = "done"
        /\ RequestsAnswered(p)
        /\ PLUGIN_CHANGE \in before[p].labels
        /\ READY_TO_MERGE \notin before[p].labels
        /\ READY_TO_MERGE \in labels
        /\ \E k \in DOMAIN reviewStates[p] : reviewStates[p][k]

\* C5: when the review list holds no decisive review by a team member, the
\* review handler issues no write and the label set is what it was.
C5_NoDecisiveReviewNoChange ==
    \A p \in Procs :
        ( /\ handling[p] = REVIEW_SUBMITTED
          /\ pc[p] = "done"
          /\ ~\E i \in DOMAIN reviews[p] :
                 reviews[p][i].login \in members[p] /\ IsDecisive(reviews[p][i]) )
        => /\ writes[p] = <<>>
           /\ labels = before[p].labels

\* A non-member approved and a member only commented: nothing changed
C5_Witness ==
    \E p \in Procs :
        /\ ReviewsJudged(p)
        /\ PLUGIN_CHANGE \in before[p].labels
        /\ READY_TO_MERGE \notin labels
        /\ \E i \in DOMAIN reviews[p] :
               reviews[p][i].login \notin members[p] /\ IsApproval(reviews[p][i])
        /\ \E i \in DOMAIN reviews[p] :
               /\ reviews[p][i].login \in members[p]
               /\ reviews[p][i].state = "COMMENTED"
        /\ ~\E i \in DOMAIN reviews[p] :
               reviews[p][i].login \in members[p] /\ IsDecisive(reviews[p][i])

-----------------------------------------------------------------------------
(* Properties of the PR-content handler *)

MarkerComments(cs) == {i \in DOMAIN cs : StartsWith(cs[i].body, marker)}

CommentWrites(p) ==
    {i \in DOMAIN writes[p] : writes[p][i].op \in {"createComment", "updateComment"}}

\* C2: at most one comment of the issue starts with the marker, in every
\* state reached by PR-content invocations handled one after another.
C2_AtMostOneSticky == Cardinality(MarkerComments(comments)) <= 1

\* A second invocation rewrote in place the comment an earlier one had
\* created or rewritten
C2_Witness ==
    \E p \in Procs :
        /\ handling[p] = PULL_REQUEST
        /\ pc[p] = "done"
        /\ events = 2
        /\ \E i \in DOMAIN writes[p] : writes[p][i].op = "updateComment"
        /\ \E i \in MarkerComments(before[p].comments) :
               /\ before[p].comments[i].body # OldStickyBody
               /\ comments[i].body # before[p].comments[i].body
        /\ Len(comments) = Len(before[p].comments)

\* Invocation p is a PR-content invocation whose first setHasLabel call,
\* the one of line 36, has returned
ReadyCleared(p) ==
    /\ handling[p] = PULL_REQUEST
    /\ calls[p] # <<>>
    /\ ~calls[p][1].threw

\* C6: once the first setHasLabel call of a PR-content invocation has
\* returned, the issue does not carry `ready to merge`, whether the
\* invocation goes on, ends normally or is aborted later; and the label,
\* once absent, comes back only by the write of a review invocation.
C6_ClearedUntilReview ==
    /\ [](\A p \in Procs : ReadyCleared(p) => READY_TO_MERGE \notin labels)
    /\ [][(READY_TO_MERGE \notin labels /\ READY_TO_MERGE \in labels')
            => \E p \in Procs : handling[p] = REVIEW_SUBMITTED /\ pc[p] = "rv_apply"]_vars

\* An invocation that removed the label and was aborted later has returned
C6_Witness ==
    \E p \in Procs :
        /\ ReadyCleared(p)
        /\ pc[p] = "done"
        /\ failed[p]
        /\ READY_TO_MERGE \in before[p].labels
        /\ READY_TO_MERGE \notin labels

\* C8: each setHasLabel call of a handler changes the named label only:
\* condition true and label absent gives the set plus the label, condition
\* false and label present gives the set minus the label, both when the
\* request is answered, and the two other cases issue no write and leave
\* the set as it was.
C8_OnlyNamedLabel ==
    \A p \in Procs : \A i \in DOMAIN calls[p] :
        LET c == calls[p][i]
        IN /\ (c.condition /\ c.label \notin c.pre /\ c.error # RequestFailed)
                 => c.after = c.pre \cup {c.label}
           /\ (~c.condition /\ c.label \in c.pre /\ c.error # RequestFailed)
                 => c.after = c.pre \ {c.label}
           /\ ((c.condition /\ c.label \in c.pre) \/ (~c.condition /\ c.label \notin c.pre))
                 => (c.call = "none" /\ c.after = c.pre)

\* An add, a remove and a no-op of one invocation, each with other labels
\* on the issue
C8_Witness ==
    \E p \in Procs :
        /\ handling[p] = PULL_REQUEST
        /\ \E i \in DOMAIN calls[p] :
               /\ calls[p][i].call = "addLabels"
               /\ calls[p][i].pre # {}
               /\ calls[p][i].after = calls[p][i].pre \cup {calls[p][i].label}
        /\ \E i \in DOMAIN calls[p] :
               /\ calls[p][i].call = "removeLabel"
               /\ calls[p][i].after # {}
        /\ \E i \in DOMAIN calls[p] :
               /\ calls[p][i].call = "none"
               /\ calls[p][i].condition
               /\ calls[p][i].label \in calls[p][i].pre

\* C9 as stated: a PR-content invocation on a PR without plugin files, on
\* an issue without a marker comment, creates no comment.
C9_NoCommentWithoutPluginFiles ==
    \A p \in Procs :
        ( /\ handling[p] = PULL_REQUEST
          /\ pc[p] = "done"
          /\ pluginFiles[p] = <<>>
          /\ MarkerComments(before[p].comments) = {} )
        => /\ comments = before[p].comments
           /\ CommentWrites(p) = {}

\* Narrative generation failed in invocation p: a callback of lines 58-96
\* threw, on a failed content fetch or in extractURL, and this exception
\* ended the invocation
NarrativeFailed(p) ==
    /\ handling[p] = PULL_REQUEST
    /\ pc[p] = "done"
    /\ failed[p]
    /\ error[p] = CallbackThrew

\* C10: when narrative generation fails, the invocation creates no comment
\* and updates none: the comments are what they were before it.
C10_FailedNarrativeNoComment ==
    \A p \in Procs :
        NarrativeFailed(p)
            => /\ comments = before[p].comments
               /\ CommentWrites(p) = {}

\* One plugin file's narrative was ready, another's failed, and the marker
\* comment that existed is untouched
C10_Witness ==
    \E p \in Procs :
        /\ NarrativeFailed(p)
        /\ MarkerComments(before[p].comments) # {}
        /\ \E i \in DOMAIN results[p] : results[p][i].done
        /\ \E i \in DOMAIN results[p] : ~results[p][i].done
        /\ comments = before[p].comments

-----------------------------------------------------------------------------
(* Properties of the label reconciler *)

\* C7 as stated: a setHasLabel call that repeats the arguments of the call
\* before it, both with their requests answered, leaves the label set as
\* the first call left it and raises no exception.
C7_RepeatedCallIdempotent ==
    \A p \in Procs : \A i \in DOMAIN calls[p] :
        ( /\ i > 1
          /\ calls[p][i].error # RequestFailed
          /\ calls[p][i - 1].error # RequestFailed
          /\ calls[p][i].condition = calls[p][i - 1].condition
          /\ calls[p][i].label = calls[p][i - 1].label )
        => /\ calls[p][i].after = calls[p][i - 1].after
           /\ ~calls[p][i].threw

-----------------------------------------------------------------------------
(* Properties of an aborted PR-content invocation *)

\* The label set that lines 36 and 54-56 aim at, from the three file classes
ReconciledLabels(p) ==
    {l \in Labels :
        \/ l = PLUGIN_CHANGE /\ pluginFiles[p] # <<>>
        \/ l = DEPENDENCY_CHANGE /\ dependencyFiles[p] # <<>>
        \/ l = PACKAGE_CHANGE /\ otherFiles[p] # <<>>}

\* The label writes of invocation p
LabelWrites(p) ==
    {i \in DOMAIN writes[p] : writes[p][i].op \in {"addLabels", "removeLabel"}}

\* C11 as stated: when narrative generation fails, the label set after the
\* aborted invocation equals the label set before the invocation.
C11_FailedNarrativeLabelsUnchanged ==
    \A p \in Procs :
        NarrativeFailed(p) => labels = before[p].labels

\* C11, amended: when narrative generation fails, the label changes already
\* applied by lines 36 and 54-56 stay: the label set after the aborted
\* invocation is the reconciled one, without ready to merge and with each
\* content label present exactly when its file class is not empty.
C11_FailedNarrativeLabelsReconciled ==
    \A p \in Procs :
        NarrativeFailed(p) => labels = ReconciledLabels(p)

\* A narrative failed after the invocation had removed ready to merge and
\* added plugin change
C11_Witness ==
    \E p \in Procs :
        /\ NarrativeFailed(p)
        /\ READY_TO_MERGE \in before[p].labels
        /\ PLUGIN_CHANGE \notin before[p].labels
        /\ labels # before[p].labels
        /\ LabelWrites(p) # {}

-----------------------------------------------------------------------------
(* Properties of the classifier *)

\* The three classes as the specification words them
PathStartsWithPlugins(f) == Len(f.filename) > 0 /\ f.filename[1] = "plugins/"

PathIsManifest(f) ==
    f.filename \in
        { <<"package/verification-template/build.gradle">>,
          <<"package/verification-template/gradle/verification-metadata.xml">> }

PathIsOther(f) == ~PathStartsWithPlugins(f) /\ ~PathIsManifest(f)

\* The number of the three sequences of invocation p that hold file f
SequencesHolding(p, f) ==
    Cardinality({s \in {"plugin", "dependency", "other"} :
        LET seq == IF s = "plugin" THEN pluginFiles[p]
                   ELSE IF s = "dependency" THEN dependencyFiles[p]
                   ELSE otherFiles[p]
        IN \E i \in DOMAIN seq : seq[i] = f})

\* C12: the classifier puts every file of the list into exactly one of
\* pluginFiles (path starts with plugins/), dependencyFiles (path is one of
\* the two manifest paths) and otherFiles (any other path); each sequence
\* keeps the order of the list, and together they hold the files of the
\* list and nothing else.
C12_ClassifierPartitions ==
    \A p \in Procs :
      (handling[p] = "classify" /\ pc[p] = "done") =>
        /\ pluginFiles[p] = SelectSeq(files[p], PathStartsWithPlugins)
        /\ dependencyFiles[p] = SelectSeq(files[p], PathIsManifest)
        /\ otherFiles[p] = SelectSeq(files[p], PathIsOther)
        /\ \A i \in DOMAIN files[p] : SequencesHolding(p, files[p][i]) = 1
        /\ Len(pluginFiles[p]) + Len(dependencyFiles[p]) + Len(otherFiles[p])
               = Len(files[p])

\* A list of three paths, one in each class, whose other file has plugins/
\* in the middle of its path and comes first
C12_Witness ==
    \E p \in Procs :
        /\ handling[p] = "classify"
        /\ Len(files[p]) = 3
        /\ files[p][1].filename = <<"package/", "plugins/", "foo">>
        /\ otherFiles[p] = <<files[p][1]>>
        /\ Len(pluginFiles[p]) = 1
        /\ Len(dependencyFiles[p]) = 1

-----------------------------------------------------------------------------
(* Properties of the joined narrative *)

\* The texts the callback of lines 58-96 can return for a file
NarrativesOf(file) ==
    {Narrative(file, r[1], r[2]).text :
        r \in {q \in NewResponses \X OldResponses :
                  Narrative(file, q[1], q[2]).ok}}

\* The narratives of every plugin file of the input set
NarrativeTable == [file \in PluginFileSet |-> NarrativesOf(file)]

\* text is a narrative of each file of fs, in the order of fs, with a blank
\* line between two of them
RECURSIVE JoinsInOrder(_, _)
JoinsInOrder(text, fs) ==
    IF fs = <<>> THEN text = <<>>
    ELSE \E t \in NarrativeTable[Head(fs)] :
            /\ StartsWith(text, t)
            /\ LET rest == SubSeq(text, Len(t) + 1, Len(text))
               IN IF Len(fs) = 1 THEN rest = <<>>
                  ELSE /\ StartsWith(rest, <<"\n\n">>)
                       /\ JoinsInOrder(SubSeq(rest, 2, Len(rest)), Tail(fs))

WithoutWarning(text) ==
    IF StartsWith(text, <<"**Includes non-plugin changes**", "\n\n">>)
    THEN SubSeq(text, 3, Len(text))
    ELSE text

\* Every callback of invocation p was fulfilled and the text was joined
Joined(p) ==
    /\ handling[p] = PULL_REQUEST
    /\ pc[p] \in {"pr_upsert", "done"}
    /\ Len(results[p]) = Len(pluginFiles[p])
    /\ Len(settled[p]) = Len(pluginFiles[p])

\* C13: in whatever order the callbacks of the plugin files are fulfilled,
\* the joined text holds one narrative per plugin file, in the order of the
\* file list, separated by blank lines.
C13_JoinedInFileOrder ==
    \A p \in Procs :
        Joined(p) => JoinsInOrder(WithoutWarning(difftext[p]), pluginFiles[p])

\* The callback of the second plugin file was fulfilled before that of the
\* first, and the text was joined and posted
C13_Witness ==
    \E p \in Procs :
        /\ Joined(p)
        /\ pc[p] = "done"
        /\ settled[p] = <<2, 1>>
        /\ results[p][1].text # results[p][2].text
        /\ CommentWrites(p) # {}

-----------------------------------------------------------------------------
(* More properties of the review handler *)

\* Invocation p handles a review on an issue without plugin change
ReviewWithoutPluginChange(p) ==
    /\ handling[p] = REVIEW_SUBMITTED
    /\ pc[p] # "idle"
    /\ PLUGIN_CHANGE \notin before[p].labels

\* C14: a review delivered for an issue that does not carry plugin change
\* ends the handler after listLabelsOnIssue: it lists no reviews, issues no
\* write, and the labels, ready to merge among them, stay as they were.
C14_NoPluginChangeNoWrite ==
    \A p \in Procs :
        ReviewWithoutPluginChange(p)
            => /\ pc[p] = "done"
               /\ writes[p] = <<>>
               /\ labels = before[p].labels
               /\ comments = before[p].comments

\* The issue carries ready to merge without plugin change, and keeps it
C14_Witness ==
    \E p \in Procs :
        /\ ReviewWithoutPluginChange(p)
        /\ READY_TO_MERGE \in before[p].labels
        /\ READY_TO_MERGE \in labels
        /\ pc[p] = "done"

\* The reviews of rs written by the logins of ms, in the order of rs
MemberReviews(rs, ms) ==
    LET ByMember(r) == r.login \in ms
    IN SelectSeq(rs, ByMember)

\* The label set the specification gives for label set ls and member
\* reviews mrs; it is a function of these two and of nothing else
OutcomeOfMemberReviews(ls, mrs) ==
    LET authors == {mrs[i].login : i \in DOMAIN mrs}
    IN IF PLUGIN_CHANGE \notin ls THEN ls
       ELSE IF \E k \in authors :
                   /\ LastDecisive(mrs, k) # 0
                   /\ IsRejection(mrs[LastDecisive(mrs, k)])
            THEN ls \ {READY_TO_MERGE}
       ELSE IF \E i \in DOMAIN mrs : IsDecisive(mrs[i])
            THEN ls \cup {READY_TO_MERGE}
       ELSE ls

\* C15: the label set the review handler leaves is determined by the label
\* set it found and by the reviews of team members alone, so two review
\* lists that differ only in reviews by logins outside the team, with the
\* same labels and the same team, leave the same label set when the
\* handler's requests are all answered.
C15_NonMemberReviewsIgnored ==
    \A p \in Procs :
        (handling[p] = REVIEW_SUBMITTED /\ pc[p] = "done" /\ RequestsAnswered(p))
            => labels = OutcomeOfMemberReviews(before[p].labels,
                            MemberReviews(reviews[p], members[p]))

\* A member approved and a login outside the team requested changes after
\* that: the label was added as if the second review were not there
C15_Witness ==
    \E p \in Procs :
        /\ handling[p] = REVIEW_SUBMITTED
        /\ pc[p] = "done"
        /\ RequestsAnswered(p)
        /\ Len(reviews[p]) = 2
        /\ reviews[p][1].login \in members[p]
        /\ IsApproval(reviews[p][1])
        /\ reviews[p][2].login \notin members[p]
        /\ IsRejection(reviews[p][2])
        /\ READY_TO_MERGE \notin before[p].labels
        /\ READY_TO_MERGE \in labels

\* The decision map after the first n reviews of invocation p
MapAfter(p, n) == ReviewStates(SubSeq(reviews[p], 1, n), members[p])

\* C16: going through the list, a team member's review with state APPROVED
\* or body lgtm sets the member's entry to approved, whatever the state; one
\* with a state other than APPROVED and COMMENTED and a body other than lgtm
\* sets it to rejected; one with state COMMENTED and a body other than lgtm
\* leaves the decision map as it was, entry of that member included.
C16_ReviewClassification ==
    \A p \in Procs :
        ReviewsJudged(p) =>
            /\ reviewStates[p] = MapAfter(p, Len(reviews[p]))
            /\ \A i \in DOMAIN reviews[p] :
                 LET r == reviews[p][i]
                 IN r.login \in members[p] =>
                      /\ (r.state = "APPROVED" \/ r.body = <<"lgtm">>)
                            => /\ r.login \in DOMAIN MapAfter(p, i)
                               /\ MapAfter(p, i)[r.login] = TRUE
                      /\ (r.state \notin {"APPROVED", "COMMENTED"} /\ r.body # <<"lgtm">>)
                            => /\ r.login \in DOMAIN MapAfter(p, i)
                               /\ MapAfter(p, i)[r.login] = FALSE
                      /\ (r.state = "COMMENTED" /\ r.body # <<"lgtm">>)
                            => MapAfter(p, i) = MapAfter(p, i - 1)

\* A member requested changes with the body lgtm, which counts as an
\* approval, and commented after that, which left the approval in place
C16_Witness ==
    \E p \in Procs :
        /\ ReviewsJudged(p)
        /\ \E k \in members[p] :
               /\ Len(reviews[p]) = 2
               /\ reviews[p][1] = [login |-> k, state |-> "CHANGES_REQUESTED",
                                   body |-> <<"lgtm">>]
               /\ reviews[p][2] = [login |-> k, state |-> "COMMENTED",
                                   body |-> <<"needs work">>]
               /\ reviewStates[p][k] = TRUE
        /\ READY_TO_MERGE \in labels

-----------------------------------------------------------------------------
(* More properties of the PR-content handler *)

\* Invocation p has made its four setHasLabel calls and none was refused
LabelsReconciled(p) ==
    /\ handling[p] = PULL_REQUEST
    /\ pc[p] \in {"pr_narrate", "pr_upsert", "done"}
    /\ Len(calls[p]) = 4
    /\ ~calls[p][4].threw

\* C17: once a PR-content invocation has reconciled the labels, the issue
\* carries plugin change exactly when the file list has a plugin file,
\* dependency change exactly when it has a manifest file and package change
\* exactly when it has another file, whatever it carried before.
C17_LabelsFollowFileClasses ==
    \A p \in Procs :
        LabelsReconciled(p) =>
            LET fs == pluginFiles[p] \o dependencyFiles[p] \o otherFiles[p]
            IN /\ PLUGIN_CHANGE \in labels
                      <=> \E i \in DOMAIN fs : PathStartsWithPlugins(fs[i])
               /\ DEPENDENCY_CHANGE \in labels
                      <=> \E i \in DOMAIN fs : PathIsManifest(fs[i])
               /\ PACKAGE_CHANGE \in labels
                      <=> \E i \in DOMAIN fs : PathIsOther(fs[i])

\* The issue carried dependency change and package change and the PR has
\* plugin and manifest files only: one label added, one kept, one removed
C17_Witness ==
    \E p \in Procs :
        /\ LabelsReconciled(p)
        /\ before[p].labels = {DEPENDENCY_CHANGE, PACKAGE_CHANGE}
        /\ labels = {PLUGIN_CHANGE, DEPENDENCY_CHANGE}
        /\ Len(pluginFiles[p]) = 1
        /\ Len(dependencyFiles[p]) = 1

-----------------------------------------------------------------------------
(* Properties of overlapping invocations *)

\* C18 as stated: while the deliveries handled are PR-content deliveries,
\* overlapping or not, the issue never has two comments that start with the
\* marker.
C18_AtMostOneStickyOverlapped ==
    (\A p \in Procs : handling[p] \in {"none", PULL_REQUEST})
        => Cardinality(MarkerComments(comments)) <= 1

\* C19 as stated: a removeLabel call for a label that another invocation
\* has removed since the snapshot was taken raises no exception: a
\* setHasLabel call that finds the label gone returns when its request is
\* answered, and a review invocation whose requests are answered never
\* fails once it has come to its write.
C19_AbsentLabelRemovalTolerated ==
    \A p \in Procs :
        /\ \A i \in DOMAIN calls[p] :
               ( /\ calls[p][i].call = "removeLabel"
                 /\ calls[p][i].label \notin calls[p][i].pre
                 /\ calls[p][i].error # RequestFailed )
               => ~calls[p][i].threw
        /\ (handling[p] = REVIEW_SUBMITTED /\ writes[p] # <<>> /\ RequestsAnswered(p))
               => ~failed[p]

-----------------------------------------------------------------------------
(* Properties of the two handlers together *)

\* C20: from an issue on which ready to merge comes with plugin change, and
\* with invocations that do not overlap, ready to merge is on the issue
\* only together with plugin change in every state: between two awaited
\* calls of an invocation and after an invocation that was aborted too.
C20_ReadyOnlyWithPluginChange ==
    READY_TO_MERGE \in labels => PLUGIN_CHANGE \in labels

\* A PR-content invocation found both labels and has removed both, ready
\* to merge first: its PR has no plugin file any more
C20_Witness ==
    \E p \in Procs :
        /\ handling[p] = PULL_REQUEST
        /\ pc[p] # "idle"
        /\ {READY_TO_MERGE, PLUGIN_CHANGE} \subseteq before[p].labels
        /\ Len(writes[p]) >= 2
        /\ writes[p][1] = [op |-> "removeLabel", arg |-> READY_TO_MERGE]
        /\ writes[p][2] = [op |-> "removeLabel", arg |-> PLUGIN_CHANGE]
        /\ PLUGIN_CHANGE \notin labels

====
